---- MODULE Spec2Model ----
(***************************************************************************)
(* A model of src/src/playwright-config.ts: the PlaywrightConfig           *)
(* interceptor (route registration, path composition, dispatch of          *)
(* intercepted requests, passthrough and teardown).                        *)
(*                                                                         *)
(* JavaScript strings are sequences of one-character strings, so that      *)
(* slicing, trimming, prefix tests and slash collapsing are computed as    *)
(* the code computes them.                                                 *)
(***************************************************************************)
EXTENDS Integers, Sequences, FiniteSets, TLC

VARIABLES
  mirageServer,         \* this.mirageServer
  page,                 \* this.page
  interceptUrlPattern,  \* this.interceptUrlPattern
  urlPrefix,            \* this.urlPrefix
  namespace,            \* this.namespace
  router,               \* this.router: verb -> RouteRecognizer
  verbFns,              \* the registration functions this[verb] that exist
  playwrightHandler,    \* this.playwrightHandler (identity of the closure)
  passthroughChecks,    \* this.passthroughChecks
  pageRoutes,           \* the page's listener registry (page.route/unroute)
  requests,             \* the dispatches of intercepted requests
  nextHandler,          \* handlers handed out by registerRouteHandler so far
  nextClosure,          \* playwrightHandler closures created so far
  registered,           \* per verb, the (path, kind) the calls named
  scenario,             \* the inputs the environment uses in this run
  thrown,               \* the error the last call of a method threw
  pathArg,              \* composer run: the argument of _getFullPath
  composed,             \* composer run: _getFullPath(pathArg)
  recomposed            \* composer run: _getFullPath(composed)

engineVars == <<mirageServer, page, interceptUrlPattern, router, verbFns,
                playwrightHandler, passthroughChecks, pageRoutes, requests,
                nextHandler, nextClosure, registered, scenario, thrown>>
composerVars == <<pathArg, composed, recomposed>>
vars == <<mirageServer, page, interceptUrlPattern, urlPrefix, namespace,
          router, verbFns, playwrightHandler, passthroughChecks, pageRoutes,
          requests, nextHandler, nextClosure, registered, scenario,
          thrown, pathArg, composed, recomposed>>

-----------------------------------------------------------------------------
(* JavaScript values                                                       *)

\* undefined, for a field or an argument that holds a string otherwise
Undefined == <<"undefined">>
\* a value that is not there yet (a result not computed, a slot not used)
None == <<"none">>

\* JavaScript truthiness of a string-or-undefined value
Truthy(s) == s # Undefined /\ s # <<>>

\* a || b for string-or-undefined values
Or(a, b) == IF Truthy(a) THEN a ELSE b

Last(s) == s[Len(s)]

\* s.slice(1) / s.substring(1)
DropFirst(s) == IF Len(s) = 0 THEN <<>> ELSE Tail(s)

\* s.substring(0, s.length - 1)
DropLast(s) == IF Len(s) = 0 THEN <<>> ELSE SubSeq(s, 1, Len(s) - 1)

StartsWith(s, pre) == Len(s) >= Len(pre) /\ SubSeq(s, 1, Len(pre)) = pre

\* s.indexOf(c), 1-based; 0 when absent
RECURSIVE IndexFrom(_, _, _)
IndexFrom(s, c, i) ==
  IF i > Len(s) THEN 0
  ELSE IF s[i] = c THEN i
  ELSE IndexFrom(s, c, i + 1)
IndexOf(s, c) == IndexFrom(s, c, 1)

\* String.prototype.trim, over the whitespace of the alphabet
RECURSIVE TrimLeft(_)
TrimLeft(s) ==
  IF Len(s) > 0 /\ s[1] = " " THEN TrimLeft(Tail(s)) ELSE s
RECURSIVE TrimRight(_)
TrimRight(s) ==
  IF Len(s) > 0 /\ Last(s) = " " THEN TrimRight(DropLast(s)) ELSE s
Trim(s) == TrimRight(TrimLeft(s))

\* /^https?:\/\//.test(s)
IsFQDN(s) ==
  \/ StartsWith(s, <<"h","t","t","p",":","/","/">>)
  \/ StartsWith(s, <<"h","t","t","p","s",":","/","/">>)

\* a replace that leaves the string as it is
KeepSlashes(s) == s

\* s.replace(/\/+/g, "/")
RECURSIVE DedupSlashes(_)
DedupSlashes(s) ==
  IF Len(s) < 2 THEN s
  ELSE IF s[1] = "/" /\ s[2] = "/" THEN DedupSlashes(Tail(s))
  ELSE <<s[1]>> \o DedupSlashes(Tail(s))

-----------------------------------------------------------------------------
(* _getFullPath: the path composer                                         *)

\* the namespace as the four slash cases of the code leave it
NormalizedNamespace ==
  LET lead  == namespace[1] = "/"
      trail == Last(namespace) = "/"
  IN  IF Truthy(urlPrefix) /\ Truthy(namespace)
      THEN IF lead /\ trail THEN DropFirst(DropLast(namespace))
           ELSE IF lead THEN DropFirst(namespace)
           ELSE IF trail THEN DropLast(namespace)
           ELSE namespace
      ELSE IF Truthy(namespace)
      THEN IF lead /\ trail THEN DropLast(namespace)
           ELSE IF lead THEN namespace
           ELSE IF trail THEN <<"/">> \o DropLast(namespace)
           ELSE <<"/">> \o namespace
      ELSE <<>>

\* the composition of an already stripped path
ComposeStripped(path) ==
  LET prefix == IF Truthy(urlPrefix) THEN Trim(urlPrefix) ELSE <<>>
      withPrefix ==
        IF Len(prefix) > 0
        THEN IF Last(prefix) = "/" THEN prefix ELSE prefix \o <<"/">>
        ELSE <<>>
      withNamespace == withPrefix \o NormalizedNamespace
      withSlash ==
        IF Len(withNamespace) = 0 \/ Last(withNamespace) # "/"
        THEN withNamespace \o <<"/">>
        ELSE withNamespace
      fullPath == withSlash \o path
  IN  IF IsFQDN(path) THEN path
      ELSE IF ~IsFQDN(fullPath) THEN DedupSlashes(<<"/">> \o fullPath)
      ELSE fullPath

\* a composer that keeps the leading slash of its argument
GetFullPathKeepingSlash(path) == ComposeStripped(path)

\* a composer that never treats its argument as a fully-qualified URL
GetFullPathNoFQDN(path) ==
  LET stripped == IF Len(path) > 0 /\ path[1] = "/" THEN Tail(path) ELSE path
      prefix == IF Truthy(urlPrefix) THEN Trim(urlPrefix) ELSE <<>>
      withPrefix ==
        IF Len(prefix) > 0
        THEN IF Last(prefix) = "/" THEN prefix ELSE prefix \o <<"/">>
        ELSE <<>>
      withNamespace == withPrefix \o NormalizedNamespace
      withSlash ==
        IF Len(withNamespace) = 0 \/ Last(withNamespace) # "/"
        THEN withNamespace \o <<"/">>
        ELSE withNamespace
      fullPath == withSlash \o stripped
  IN  IF ~IsFQDN(fullPath) THEN DedupSlashes(<<"/">> \o fullPath)
      ELSE fullPath

_getFullPath(path) ==
  ComposeStripped(IF Len(path) > 0 /\ path[1] = "/" THEN Tail(path) ELSE path)

-----------------------------------------------------------------------------
(* The strings of the model                                                *)

HostPrefix == <<"h","t","t","p",":","/","/","h",":","1">>
ApiBoth    == <<"/","a","p","i","/">>
ApiLead    == <<"/","a","p","i">>
ApiTrail   == <<"a","p","i","/">>
ApiBare    == <<"a","p","i">>
PathA      == <<"a">>
PathSlashA == <<"/","a">>
PathX      == <<"/","x">>
PathMovie  == <<"/","m","o","v","i","e","s","/",":","i","d">>
PathRoot   == <<"/">>
PathAll    == <<"/","*","*">>

ComposerPrefixes ==
  { Undefined, <<>>, HostPrefix, HostPrefix \o <<"/">>,
    <<" ">> \o HostPrefix, <<"/","p">>, HostPrefix \o <<"/","/">> }
ComposerNamespaces ==
  { Undefined, <<>>, ApiBoth, ApiLead, ApiTrail, ApiBare, <<"/">>,
    <<"/">> \o ApiLead }
ComposerPaths ==
  { PathA, PathSlashA, <<>>, PathRoot, <<"/","/","a">>, <<"a","/">>,
    HostPrefix \o PathSlashA, <<"/">> \o HostPrefix \o PathSlashA,
    PathX, PathMovie, PathAll }

-----------------------------------------------------------------------------
(* The route table: RouteRecognizer, as this file uses it                  *)
(* (add of one route per call, recognize of a path)                        *)

\* s.split(c)
RECURSIVE Split(_, _)
Split(s, c) ==
  LET i == IndexOf(s, c)
  IN  IF i = 0 THEN <<s>>
      ELSE <<SubSeq(s, 1, i - 1)>> \o Split(SubSeq(s, i + 1, Len(s)), c)

\* a JavaScript object with string keys, as a set of <<key, value>> pairs
EmptyObject == {}

\* the object built by assigning pairs[1], pairs[2], ... in this order
ObjectOf(pairs) ==
  { pairs[j] : j \in { k \in 1..Len(pairs) :
                         \A m \in (k + 1)..Len(pairs) : pairs[m][1] # pairs[k][1] } }

\* the parts of a route between slashes, the leading slash dropped
RouteParts(route) ==
  Split(IF Len(route) > 0 /\ route[1] = "/" THEN Tail(route) ELSE route, "/")

SegmentType(part) ==
  IF part = <<>> THEN "epsilon"
  ELSE IF part[1] = ":" THEN "dynamic"
  ELSE IF part[1] = "*" THEN "star"
  ELSE "static"

RECURSIVE SegmentsOfParts(_)
SegmentsOfParts(parts) ==
  IF parts = <<>> THEN <<>>
  ELSE LET t == SegmentType(Head(parts))
       IN  (IF t = "epsilon" THEN <<>>
            ELSE <<[type |-> t,
                    value |-> IF t = "static" THEN Head(parts) ELSE <<>>]>>)
           \o SegmentsOfParts(Tail(parts))

\* the segments a route adds to the recognizer (epsilon segments add none):
\* two routes with the same segments end in the same state of the recognizer
Segments(route) == SegmentsOfParts(RouteParts(route))

RECURSIVE NamesOfParts(_)
NamesOfParts(parts) ==
  IF parts = <<>> THEN <<>>
  ELSE (IF SegmentType(Head(parts)) \in {"dynamic", "star"}
        THEN <<Tail(Head(parts))>> ELSE <<>>)
       \o NamesOfParts(Tail(parts))

\* the parameter names of a route, in order
Names(route) == NamesOfParts(RouteParts(route))

CountType(segments, t) ==
  Cardinality({ i \in 1..Len(segments) : segments[i].type = t })

\* what the automaton reads for a list of segments: a slash and then the
\* segment, for each segment; a lone slash for a route without segments
RECURSIVE CharAtoms(_)
CharAtoms(s) ==
  IF s = <<>> THEN <<>>
  ELSE <<[k |-> "char", c |-> Head(s)]>> \o CharAtoms(Tail(s))
RECURSIVE AtomsOfSegments(_)
AtomsOfSegments(segments) ==
  IF segments = <<>> THEN <<>>
  ELSE LET g == Head(segments)
       IN  <<[k |-> "char", c |-> "/"]>>
           \o (IF g.type = "static" THEN CharAtoms(g.value)
               ELSE <<[k |-> g.type, c |-> ""]>>)
           \o AtomsOfSegments(Tail(segments))
Atoms(segments) ==
  IF segments = <<>> THEN <<[k |-> "char", c |-> "/"]>>
  ELSE AtomsOfSegments(segments)

\* the automaton: a static character reads itself, a dynamic segment one or
\* more characters other than a slash, a star segment one or more characters
RECURSIVE Accepts(_, _)
Accepts(atoms, s) ==
  IF atoms = <<>> THEN s = <<>>
  ELSE IF s = <<>> THEN FALSE
  ELSE LET a == Head(atoms)
       IN  IF a.k = "char"
           THEN s[1] = a.c /\ Accepts(Tail(atoms), Tail(s))
           ELSE /\ a.k = "dynamic" => s[1] # "/"
                /\ \/ Accepts(Tail(atoms), Tail(s))
                   \/ Accepts(atoms, Tail(s))

\* the captures of the state's regular expression (greedy groups)
RECURSIVE Captures(_, _)
Captures(atoms, s) ==
  IF atoms = <<>> \/ s = <<>> THEN <<>>
  ELSE LET a == Head(atoms)
       IN  IF a.k = "char" THEN Captures(Tail(atoms), Tail(s))
           ELSE LET fits == { n \in 1..Len(s) :
                               /\ a.k = "dynamic" =>
                                    \A i \in 1..n : s[i] # "/"
                               /\ Accepts(Tail(atoms),
                                          SubSeq(s, n + 1, Len(s))) }
                    n == IF fits = {} THEN Len(s)
                         ELSE CHOOSE m \in fits : \A o \in fits : o <= m
                IN  <<SubSeq(s, 1, n)>>
                    \o Captures(Tail(atoms), SubSeq(s, n + 1, Len(s)))

\* new RouteRecognizer(): the accepting states, in the order of creation
NewRouteRecognizer == <<>>

StateIndex(recognizer, segments) ==
  IF \E i \in 1..Len(recognizer) : recognizer[i].segments = segments
  THEN CHOOSE i \in 1..Len(recognizer) : recognizer[i].segments = segments
  ELSE 0

\* recognizer.add([{ path, handler }]): the state the path ends in gets the
\* handler; a state that exists already has its handler replaced
Add(recognizer, path, handler) ==
  LET entry == [segments |-> Segments(path),
                atoms    |-> Atoms(Segments(path)),
                handler  |-> handler,
                names    |-> Names(path)]
      i == StateIndex(recognizer, entry.segments)
  IN  IF i = 0 THEN Append(recognizer, entry)
      ELSE [recognizer EXCEPT ![i] = entry]

\* sortSolutions: fewer stars first; with stars, more statics and then more
\* dynamics first; then fewer dynamics, then more statics
Before(a, b) ==
  LET as == CountType(a.segments, "static")
      ad == CountType(a.segments, "dynamic")
      ar == CountType(a.segments, "star")
      bs == CountType(b.segments, "static")
      bd == CountType(b.segments, "dynamic")
      br == CountType(b.segments, "star")
  IN  IF ar # br THEN ar < br
      ELSE IF ar > 0 /\ as # bs THEN as > bs
      ELSE IF ar > 0 /\ ad # bd THEN ad > bd
      ELSE IF ad # bd THEN ad < bd
      ELSE IF as # bs THEN as > bs
      ELSE FALSE

\* queryString.split("&"), each pair split at "="; a key without "=" is "true"
ParseQueryString(queryString) ==
  LET pairs == Split(queryString, "&")
      kv(p) == LET parts == Split(p, "=")
               IN  IF Len(parts) = 1 THEN <<parts[1], <<"t","r","u","e">>>>
                   ELSE <<parts[1], parts[2]>>
  IN  ObjectOf([j \in 1..Len(pairs) |-> kv(pairs[j])])

\* the path without its query string, with a leading slash
PathOnly(path) ==
  LET q == IndexOf(path, "?")
      p == IF q = 0 THEN path ELSE SubSeq(path, 1, q - 1)
  IN  IF Len(p) = 0 \/ p[1] # "/" THEN <<"/">> \o p ELSE p

\* the query parameters of a path given to recognize
QueryOf(path) ==
  LET q == IndexOf(path, "?")
  IN  IF q = 0 THEN EmptyObject
      ELSE ParseQueryString(SubSeq(path, q + 1, Len(path)))

\* the path the automaton reads: a trailing slash is dropped
Readable(original) ==
  IF Len(original) > 1 /\ Last(original) = "/" THEN DropLast(original)
  ELSE original

\* the indices of the states that accept the path
Solutions(recognizer, path) ==
  { i \in 1..Len(recognizer) :
      \E read \in { Readable(PathOnly(path)) } :
        Accepts(recognizer[i].atoms, read) }

\* the solution sortSolutions puts first (solutions that sort alike keep the
\* order of their states)
FirstSolution(recognizer, solutions) ==
  CHOOSE i \in solutions :
    \A j \in solutions \ {i} :
      \/ Before(recognizer[i], recognizer[j])
      \/ /\ ~Before(recognizer[j], recognizer[i])
         /\ i < j

\* the result of a state: its handler and the params its regular expression
\* captures (from the path as given when a trailing slash was dropped and
\* the state ends in a star)
Result(state, original, queryParams) ==
  LET read == Readable(original)
      dropped == read # original
      endsInStar ==
        /\ Len(state.segments) > 0
        /\ Last(state.segments).type = "star"
      subject == IF dropped /\ endsInStar THEN original ELSE read
  IN  CHOOSE result \in
        { [handler |-> state.handler,
           params  |-> ObjectOf([j \in 1..Len(state.names) |->
                                   <<state.names[j], captures[j]>>]),
           queryParams |-> queryParams]
            : captures \in { Captures(state.atoms, subject) } } : TRUE

\* recognizer.recognize(path): undefined (here the empty sequence) for no
\* match; otherwise the results, of which matches[0] is the first of the sorted
\* solutions with its handler and params, and the query parameters of the
\* path (the solutions are computed once)
Recognize(recognizer, path) ==
  CHOOSE matches \in
    { IF solutions = {} THEN <<>>
      ELSE <<Result(recognizer[FirstSolution(recognizer, solutions)],
                    PathOnly(path), QueryOf(path))>>
        : solutions \in { Solutions(recognizer, path) } } : TRUE

-----------------------------------------------------------------------------
(* new URL(request.url())                                                  *)

\* what follows "scheme://host" in an absolute URL
AfterHost(url) ==
  LET c == IndexOf(url, ":")
      rest == SubSeq(url, c + 3, Len(url))
      s == IndexOf(rest, "/")
      q == IndexOf(rest, "?")
      cut == IF s = 0 THEN q ELSE IF q = 0 THEN s ELSE IF s < q THEN s ELSE q
  IN  IF cut = 0 THEN <<>> ELSE SubSeq(rest, cut, Len(rest))

\* url.pathname: up to the query string, "/" when empty
Pathname(url) ==
  LET a == AfterHost(url)
      q == IndexOf(a, "?")
      p == IF q = 0 THEN a ELSE SubSeq(a, 1, q - 1)
  IN  IF p = <<>> THEN <<"/">> ELSE p

\* url.search: the query string with its "?"
Search(url) ==
  LET a == AfterHost(url)
      q == IndexOf(a, "?")
  IN  IF q = 0 \/ q = Len(a) THEN <<>> ELSE SubSeq(a, q, Len(a))

\* new URL(href): the parts of the URL this file reads
URL(href) ==
  [href |-> href, pathname |-> Pathname(href), search |-> Search(href)]

-----------------------------------------------------------------------------
(* The interceptor                                                         *)

\* bounds of the model
MaxRequests == 2
MaxHandlers == 2
MaxCreates  == 2

ThePage   == <<"page">>
TheServer == <<"server">>

\* the verbs create() makes a route table and a registration function for
Verbs == <<"get", "post", "put", "delete", "patch", "head", "options">>
\* the verbs passthrough() registers for by default
DefaultPassthroughVerbs ==
  <<"get", "post", "put", "delete", "patch", "options", "head">>
\* the alias of a registration function
Aliases == [del |-> "delete"]
VerbSet == { Verbs[i] : i \in 1..Len(Verbs) }
FnNames == VerbSet \cup DOMAIN Aliases

\* the verb whose table the registration function of this name writes
VerbOfFn(fn) == IF fn \in DOMAIN Aliases THEN Aliases[fn] ELSE fn

\* the single passthrough handler of the instance; a mock handler is the
\* function registerRouteHandler(verb, path, ...) returns, one per call
playwrightPassthroughHandler ==
  [kind |-> "passthrough", id |-> 0, verb |-> "", path |-> <<>>]
MockHandler(n, verb, path) ==
  [kind |-> "mock", id |-> n, verb |-> verb, path |-> path]

DefaultInterceptUrlPattern == <<"*", "*">>
ApiGlob == <<"/", "a", "p", "i", "/", "*", "*">>

\* method.toLowerCase()
ToLowerCase(method) ==
  CASE method = "GET" -> "get"
    [] method = "POST" -> "post"
    [] method = "PUT" -> "put"
    [] method = "DELETE" -> "delete"
    [] method = "PATCH" -> "patch"
    [] method = "HEAD" -> "head"
    [] method = "OPTIONS" -> "options"
    [] method = "TRACE" -> "trace"
    [] OTHER -> method

\* a route table with the route added to the tables of all verbs
AddRouteToAllVerbs(tables, verb, fullPath, handler) ==
  [v \in DOMAIN tables |-> Add(tables[v], fullPath, handler)]

\* this.router[verb].add([{ path: fullPath, handler }])
AddRoute(tables, verb, fullPath, handler) ==
  [tables EXCEPT ![verb] = Add(@, fullPath, handler)]

\* the calls named this (path, kind) for the verb
Named(reg, verb, fullPath, kind) ==
  [reg EXCEPT ![verb] = @ \cup {<<fullPath, kind>>}]

\* a slot no request has used; records that are not there yet are blank
NoRequest ==
  [pc |-> "idle",
   raw |-> [method |-> "", url |-> <<>>, postData |-> Undefined],
   closure |-> None,
   method |-> "",
   url |-> [href |-> <<>>, pathname |-> <<>>, search |-> <<>>],
   handler |-> [kind |-> "none", id |-> 0, verb |-> "", path |-> <<>>],
   mirageRequest |-> [requestBody |-> <<>>, url |-> <<>>,
                      params |-> {}, queryParams |-> {}],
   fate |-> "none", invoked |-> 0,
   fulfills |-> 0, continues |-> 0, error |-> "none",
   result |-> [status |-> 0, headers |-> {}, body |-> <<>>],
   fulfilledWith |-> [status |-> 0, headers |-> {}, body |-> <<>>]]

Slots == 1..MaxRequests

\* the glob of page.route against a URL: "**" matches every URL, a glob
\* "<path>**" the URLs whose path starts with <path>
GlobMatches(glob, url) ==
  /\ Len(glob) >= 2
  /\ SubSeq(glob, Len(glob) - 1, Len(glob)) = <<"*", "*">>
  /\ StartsWith(Pathname(url), SubSeq(glob, 1, Len(glob) - 2))

-----------------------------------------------------------------------------
(* Inputs                                                                  *)

Config(p, glob, prefix, ns) ==
  [page |-> p, interceptUrlPattern |-> glob, urlPrefix |-> prefix,
   namespace |-> ns]
PlainConfig  == Config(ThePage, Undefined, Undefined, Undefined)
NoPageConfig == Config(Undefined, Undefined, Undefined, Undefined)
ApiConfig    == Config(ThePage, ApiGlob, HostPrefix, ApiBoth)
LocalConfig  == Config(ThePage, Undefined, <<"/", "p">>, ApiLead)

\* the arguments of passthrough(): strings, arrays of verbs, functions
Str(s)  == [t |-> "string", v |-> s]
Arr(vs) == [t |-> "array", v |-> vs]
Fun(f)  == [t |-> "function", v |-> f]

Url(path) == HostPrefix \o path
Movie42 == <<"/","m","o","v","i","e","s","/","4","2">>
SortAsc == <<"?","s","o","r","t","=","a","s","c">>
RawRequest(m, u, body) == [method |-> m, url |-> u, postData |-> body]
GetX     == RawRequest("GET", Url(PathX), Undefined)
PostX    == RawRequest("POST", Url(PathX), <<"b">>)
TraceX   == RawRequest("TRACE", Url(PathX), Undefined)
GetMovie == RawRequest("GET", Url(Movie42 \o SortAsc), Undefined)
GetApiX  == RawRequest("GET", Url(ApiLead \o PathX), Undefined)

\* what a handler completes with: [status, headers, body]
Ok       == [status |-> 200, headers |-> {}, body |-> <<"o","k">>]
NotFound == [status |-> 404, headers |-> {}, body |-> <<>>]

\* The runs of the model. Each run draws its inputs from the sets of one
\* scenario: the configurations create and config are called with, the
\* registration calls this[fn](path) and passthrough(...args), the requests
\* the page intercepts, what the handlers do (resolve with one of the
\* responses, reject, never settle), and whether requests overlap.
StaticRoutes ==
  [configs   |-> { PlainConfig },
   routes    |-> { <<"get", PathX>>, <<"post", PathX>> },
   passes    |-> { <<Str(PathX)>>,
                   <<Str(PathX), Str(PathA), Arr(<<"get", "put">>)>>,
                   <<Fun(<<"f">>)>> },
   raws      |-> { GetX, PostX, TraceX },
   fates     |-> { "resolves" },
   responses |-> { Ok },
   overlap   |-> FALSE]
DynamicRoutes ==
  [configs   |-> { PlainConfig },
   routes    |-> { <<"get", PathMovie>>, <<"get", PathRoot>> },
   passes    |-> { <<>> },
   raws      |-> { GetMovie },
   fates     |-> { "resolves", "rejects" },
   responses |-> { Ok, NotFound },
   overlap   |-> FALSE]
Lifecycle ==
  [configs   |-> { PlainConfig, NoPageConfig },
   routes    |-> { <<"get", PathX>> },
   passes    |-> { <<>> },
   raws      |-> { GetX },
   fates     |-> { "resolves" },
   responses |-> { Ok },
   overlap   |-> FALSE]
Prefixed ==
  [configs   |-> { ApiConfig },
   routes    |-> { <<"get", PathX>> },
   passes    |-> { <<>> },
   raws      |-> { GetApiX },
   fates     |-> { "resolves" },
   responses |-> { Ok },
   overlap   |-> FALSE]
Overlapping ==
  [configs   |-> { PlainConfig },
   routes    |-> { <<"get", PathX>> },
   passes    |-> { <<Str(PathX), Arr(<<"post">>)>> },
   raws      |-> { GetX, PostX },
   fates     |-> { "resolves", "rejects", "never" },
   responses |-> { Ok },
   overlap   |-> TRUE]
Configuring ==
  [configs   |-> { ApiConfig, LocalConfig },
   routes    |-> {},
   passes    |-> {},
   raws      |-> {},
   fates     |-> {},
   responses |-> {},
   overlap   |-> FALSE]
Scenarios ==
  { StaticRoutes, DynamicRoutes, Lifecycle, Prefixed, Overlapping,
    Configuring }

\* the setup calls come before the first request
NoRequestYet == \A i \in Slots : requests[i].pc = "idle"

-----------------------------------------------------------------------------
(* The state after construction                                            *)

EngineInit ==
  /\ mirageServer = Undefined
  /\ page = Undefined
  /\ interceptUrlPattern = DefaultInterceptUrlPattern
  /\ router = [v \in {} |-> NewRouteRecognizer]
  /\ verbFns = {}
  /\ playwrightHandler = Undefined
  /\ passthroughChecks = <<>>
  /\ pageRoutes = <<>>
  /\ requests = [i \in Slots |-> NoRequest]
  /\ nextHandler = 0
  /\ nextClosure = 0
  /\ registered = [v \in VerbSet |-> {}]
  /\ thrown = "none"

Init ==
  /\ EngineInit
  /\ scenario \in Scenarios
  /\ urlPrefix = Undefined
  /\ namespace = Undefined
  /\ pathArg = None
  /\ composed = None
  /\ recomposed = None

-----------------------------------------------------------------------------
(* config and create                                                       *)

\* this.urlPrefix || mirageConfig.urlPrefix || ""
ConfiguredUrlPrefix(mirageConfig) ==
  Or(Or(urlPrefix, mirageConfig.urlPrefix), <<>>)

\* this.namespace || mirageConfig.namespace || ""
ConfiguredNamespace(mirageConfig) ==
  Or(Or(namespace, mirageConfig.namespace), <<>>)

\* a config that lets the argument replace what the fields hold
configPreferringArgument(mirageConfig) ==
  /\ NoRequestYet
  /\ urlPrefix' = Or(Or(mirageConfig.urlPrefix, urlPrefix), <<>>)
  /\ namespace' = Or(Or(mirageConfig.namespace, namespace), <<>>)
  /\ thrown' = "none"
  /\ UNCHANGED <<mirageServer, page, interceptUrlPattern, router, verbFns,
                 playwrightHandler, passthroughChecks, pageRoutes, requests,
                 nextHandler, nextClosure, registered, scenario>>
  /\ UNCHANGED composerVars

config(mirageConfig) ==
  /\ NoRequestYet
  /\ urlPrefix' = ConfiguredUrlPrefix(mirageConfig)
  /\ namespace' = ConfiguredNamespace(mirageConfig)
  /\ thrown' = "none"
  /\ UNCHANGED <<mirageServer, page, interceptUrlPattern, router, verbFns,
                 playwrightHandler, passthroughChecks, pageRoutes, requests,
                 nextHandler, nextClosure, registered, scenario>>
  /\ UNCHANGED composerVars

\* page.route(url, handler): the newest route is asked first
PageRoute(routes, url, handler) ==
  <<[url |-> url, handler |-> handler]>> \o routes

\* page.unroute(url, handler)
PageUnroute(routes, url, handler) ==
  SelectSeq(routes, LAMBDA r : ~(r.url = url /\ r.handler = handler))

\* a create that makes the verb tables and the registration functions
\* before it looks for the page
createCheckingPageLate(mirageConfig) ==
  LET glob == IF mirageConfig.interceptUrlPattern # Undefined
              THEN mirageConfig.interceptUrlPattern
              ELSE interceptUrlPattern
      closure == <<"playwrightHandler", nextClosure + 1>>
      missing == mirageConfig.page = Undefined
  IN  /\ NoRequestYet
      /\ missing \/ nextClosure < MaxCreates
      /\ mirageServer' = TheServer
      /\ interceptUrlPattern' = glob
      /\ page' = mirageConfig.page
      /\ urlPrefix' = ConfiguredUrlPrefix(mirageConfig)
      /\ namespace' = ConfiguredNamespace(mirageConfig)
      /\ router' = [v \in DOMAIN router \cup VerbSet |->
                      IF v \in VerbSet THEN NewRouteRecognizer
                      ELSE router[v]]
      /\ verbFns' = verbFns \cup FnNames
      /\ registered' = [v \in VerbSet |-> {}]
      /\ thrown' = IF missing THEN "setup" ELSE "none"
      /\ playwrightHandler' = IF missing THEN playwrightHandler ELSE closure
      /\ nextClosure' = IF missing THEN nextClosure ELSE nextClosure + 1
      /\ pageRoutes' = IF missing THEN pageRoutes
                       ELSE PageRoute(pageRoutes, glob, closure)
      /\ UNCHANGED <<passthroughChecks, requests, nextHandler, scenario>>
      /\ UNCHANGED composerVars

create(mirageConfig) ==
  LET glob == IF mirageConfig.interceptUrlPattern # Undefined
              THEN mirageConfig.interceptUrlPattern
              ELSE interceptUrlPattern
      closure == <<"playwrightHandler", nextClosure + 1>>
  IN  /\ NoRequestYet
      /\ mirageServer' = TheServer
      /\ interceptUrlPattern' = glob
      /\ page' = mirageConfig.page
      /\ IF mirageConfig.page = Undefined
         THEN /\ thrown' = "setup"
              /\ UNCHANGED <<urlPrefix, namespace, router, verbFns,
                             playwrightHandler, pageRoutes, nextClosure,
                             registered>>
         ELSE /\ nextClosure < MaxCreates
              /\ thrown' = "none"
              /\ urlPrefix' = ConfiguredUrlPrefix(mirageConfig)
              /\ namespace' = ConfiguredNamespace(mirageConfig)
              /\ router' = [v \in DOMAIN router \cup VerbSet |->
                              IF v \in VerbSet THEN NewRouteRecognizer
                              ELSE router[v]]
              /\ verbFns' = verbFns \cup FnNames
              /\ playwrightHandler' = closure
              /\ nextClosure' = nextClosure + 1
              /\ pageRoutes' = PageRoute(pageRoutes, glob, closure)
              /\ registered' = [v \in VerbSet |-> {}]
      /\ UNCHANGED <<passthroughChecks, requests, nextHandler, scenario>>
      /\ UNCHANGED composerVars

-----------------------------------------------------------------------------
(* Registration: this[verb](path, ...args) and passthrough(...args)        *)

\* the registration function of this name, called with a path
route(fn, path) ==
  /\ NoRequestYet
  /\ fn \in verbFns
  /\ nextHandler < MaxHandlers
  /\ mirageServer # Undefined
  /\ LET handler == MockHandler(nextHandler + 1, VerbOfFn(fn), path)
         fullPath == _getFullPath(path)
     IN  /\ nextHandler' = nextHandler + 1
         /\ thrown' = "none"
         /\ router' = AddRoute(router, VerbOfFn(fn), fullPath, handler)
         /\ registered' = Named(registered, VerbOfFn(fn), fullPath, "mock")
  /\ UNCHANGED <<mirageServer, page, interceptUrlPattern, urlPrefix,
                 namespace, verbFns, playwrightHandler, passthroughChecks,
                 pageRoutes, requests, nextClosure, scenario>>
  /\ UNCHANGED composerVars

\* the verbs of a passthrough call that does not look for an array
PassthroughVerbsIgnoringArray(args) == DefaultPassthroughVerbs

\* the verbs of a passthrough call: the last argument when it is an array
PassthroughVerbs(args) ==
  IF Len(args) > 0 /\ Last(args).t = "array" THEN Last(args).v
  ELSE DefaultPassthroughVerbs

\* the paths of a passthrough call that registers "/**" alone by default
PassthroughPathsWithoutRoot(args) ==
  (IF Len(args) = 0 THEN <<Str(PathAll)>> ELSE <<>>)
  \o SelectSeq(args, LAMBDA a : a.t = "string")

\* the paths of a passthrough call: "/**" and "/" without arguments, and
\* the arguments that are strings
PassthroughPaths(args) ==
  (IF Len(args) = 0 THEN <<Str(PathAll), Str(PathRoot)>> ELSE <<>>)
  \o SelectSeq(args, LAMBDA a : a.t = "string")

\* verbs.forEach(verb => this.router[verb].add(...)); a verb without a table
\* throws and ends the call
RECURSIVE ForEachVerb(_, _, _)
ForEachVerb(st, verbs, fullPath) ==
  IF verbs = <<>> \/ st.threw THEN st
  ELSE IF Head(verbs) \notin DOMAIN st.tables
  THEN [st EXCEPT !.threw = TRUE]
  ELSE ForEachVerb(
         [st EXCEPT !.tables = AddRoute(@, Head(verbs), fullPath,
                                        playwrightPassthroughHandler),
                    !.named = Named(@, Head(verbs), fullPath, "passthrough")],
         Tail(verbs), fullPath)

\* paths.forEach(...): a function goes to passthroughChecks, a string is
\* composed and registered for every verb
RECURSIVE ForEachPath(_, _, _)
ForEachPath(st, paths, verbs) ==
  IF paths = <<>> \/ st.threw THEN st
  ELSE LET path == Head(paths)
       IN  ForEachPath(
             IF path.t = "function"
             THEN [st EXCEPT !.checks = Append(@, path.v)]
             ELSE ForEachVerb(st, verbs, _getFullPath(path.v)),
             Tail(paths), verbs)

passthrough(args) ==
  LET st == ForEachPath([tables |-> router, checks |-> passthroughChecks,
                         named |-> registered, threw |-> FALSE],
                        PassthroughPaths(args), PassthroughVerbs(args))
  IN  /\ NoRequestYet
      /\ UNCHANGED <<mirageServer, page, interceptUrlPattern, urlPrefix,
                     namespace, verbFns, playwrightHandler, pageRoutes,
                     requests, nextHandler, nextClosure, scenario>>
      /\ UNCHANGED composerVars
      /\ router' = st.tables
      /\ passthroughChecks' = st.checks
      /\ registered' = st.named
      /\ thrown' = IF st.threw THEN "TypeError" ELSE "none"

-----------------------------------------------------------------------------
(* start and shutdown                                                      *)

start ==
  /\ thrown' = "none"
  /\ UNCHANGED <<mirageServer, page, interceptUrlPattern, urlPrefix,
                 namespace, router, verbFns, playwrightHandler,
                 passthroughChecks, pageRoutes, requests, nextHandler,
                 nextClosure, registered, scenario>>
  /\ UNCHANGED composerVars

\* a shutdown that also drops the dispatches in flight
shutdownCancellingDispatch ==
  /\ pageRoutes' =
       IF page # Undefined /\ playwrightHandler # Undefined
       THEN PageUnroute(pageRoutes, interceptUrlPattern, playwrightHandler)
       ELSE pageRoutes
  /\ thrown' = "none"
  /\ requests' = [i \in Slots |->
                    IF requests[i].pc \in {"awaitHeaders", "awaitHandler"}
                    THEN [requests[i] EXCEPT !.pc = "error",
                                             !.error = "cancelled"]
                    ELSE requests[i]]
  /\ UNCHANGED <<mirageServer, page, interceptUrlPattern, urlPrefix,
                 namespace, router, verbFns, playwrightHandler,
                 passthroughChecks, nextHandler, nextClosure,
                 registered, scenario>>
  /\ UNCHANGED composerVars

shutdown ==
  /\ pageRoutes' =
       IF page # Undefined /\ playwrightHandler # Undefined
       THEN PageUnroute(pageRoutes, interceptUrlPattern, playwrightHandler)
       ELSE pageRoutes
  /\ thrown' = "none"
  /\ UNCHANGED <<mirageServer, page, interceptUrlPattern, urlPrefix,
                 namespace, router, verbFns, playwrightHandler,
                 passthroughChecks, requests, nextHandler, nextClosure,
                 registered, scenario>>
  /\ UNCHANGED composerVars

-----------------------------------------------------------------------------
(* The dispatcher: this.playwrightHandler(route, request)                  *)

\* the slot of the next request: requests overlap only in a run that says so
FreeSlots ==
  { i \in Slots :
      /\ requests[i].pc = "idle"
      /\ \A m \in 1..(i - 1) : requests[m].pc # "idle"
      /\ scenario.overlap \/ i = 1 }

\* the page hands an intercepted request to the newest route whose glob
\* matches; the handler reads the method, parses the URL and runs up to
\* `await request.allHeaders()`
Deliver(raw) ==
  /\ \E k \in 1..Len(pageRoutes) : GlobMatches(pageRoutes[k].url, raw.url)
  /\ LET k == CHOOSE n \in 1..Len(pageRoutes) :
                /\ GlobMatches(pageRoutes[n].url, raw.url)
                /\ \A m \in 1..(n - 1) : ~GlobMatches(pageRoutes[m].url, raw.url)
     IN  \E i \in FreeSlots :
           requests' = [requests EXCEPT ![i] =
                          [NoRequest EXCEPT !.pc = "awaitHeaders",
                                            !.raw = raw,
                                            !.method = raw.method,
                                            !.url = URL(raw.url),
                                            !.closure = pageRoutes[k].handler]]
  /\ UNCHANGED <<mirageServer, page, interceptUrlPattern, urlPrefix,
                 namespace, router, verbFns, playwrightHandler,
                 passthroughChecks, pageRoutes, nextHandler, nextClosure,
                 registered, scenario, thrown>>
  /\ UNCHANGED composerVars

\* this.router[method.toLowerCase()]?.recognize(url.pathname)
Matches(tables, req) ==
  IF ToLowerCase(req.method) \in DOMAIN tables
  THEN Recognize(tables[ToLowerCase(req.method)], req.url.pathname)
  ELSE <<>>

\* this.playwrightPassthroughHandler(route, request): route.continue()
PassthroughHandler(req) ==
  [req EXCEPT !.pc = "forwarded", !.continues = @ + 1]

\* the mock request the handler is called with
MirageRequest(req, match) ==
  [requestBody |-> IF req.raw.postData = Undefined THEN <<>>
                   ELSE req.raw.postData,
   url |-> req.url.pathname,
   params |-> match.params,
   queryParams |-> match.queryParams]

\* await handler(mirageRequest): the handler is called, and the dispatch is
\* suspended until the handler settles (fate: what the handler will do)
InvokeHandler(req, match, fate) ==
  [req EXCEPT !.pc = "awaitHandler",
              !.handler = match.handler,
              !.mirageRequest = MirageRequest(req, match),
              !.invoked = @ + 1,
              !.fate = fate]

\* a dispatcher that does not return after the passthrough handler
DispatchFallingThrough(req, matches, fate) ==
  IF Len(matches) = 0
  THEN [req EXCEPT !.pc = "error", !.error = "routing-miss"]
  ELSE IF matches[1].handler = playwrightPassthroughHandler
  THEN InvokeHandler([req EXCEPT !.continues = @ + 1], matches[1], fate)
  ELSE InvokeHandler(req, matches[1], fate)

\* a dispatcher that forwards a request no route matches
DispatchForwardingMiss(req, matches, fate) ==
  IF Len(matches) = 0
  THEN PassthroughHandler(req)
  ELSE IF matches[1].handler = playwrightPassthroughHandler
  THEN PassthroughHandler([req EXCEPT !.handler = matches[1].handler])
  ELSE InvokeHandler(req, matches[1], fate)

\* the handler once it has the matches: no match throws, the passthrough
\* handler forwards, any other handler is called and awaited
Dispatch(req, matches, fate) ==
  IF Len(matches) = 0
  THEN [req EXCEPT !.pc = "error", !.error = "routing-miss"]
  ELSE IF matches[1].handler = playwrightPassthroughHandler
  THEN PassthroughHandler([req EXCEPT !.handler = matches[1].handler])
  ELSE InvokeHandler(req, matches[1], fate)

\* the headers arrive and the dispatch of slot i goes on: the table of the
\* verb is asked once, and the handler acts on what it answers
Resume(i, fate) ==
  /\ requests[i].pc = "awaitHeaders"
  /\ \E matches \in { Matches(router, requests[i]) } :
       requests' = [requests EXCEPT ![i] = Dispatch(@, matches, fate)]
  /\ UNCHANGED <<mirageServer, page, interceptUrlPattern, urlPrefix,
                 namespace, router, verbFns, playwrightHandler,
                 passthroughChecks, pageRoutes, nextHandler, nextClosure,
                 registered, scenario, thrown>>
  /\ UNCHANGED composerVars

\* a dispatcher that drops the result of the handler
FulfillDropped(req, response) == req

\* a dispatcher that answers 200 whatever status the handler gave
FulfillAlwaysOk(req, response) ==
  [req EXCEPT !.pc = "fulfilled",
              !.result = response,
              !.fulfilledWith = [status  |-> 200,
                                 headers |-> response.headers,
                                 body    |-> response.body],
              !.fulfills = @ + 1]

\* route.fulfill({ status, headers, body }) with the handler's result
Fulfill(req, response) ==
  [req EXCEPT !.pc = "fulfilled",
              !.result = response,
              !.fulfilledWith = [status  |-> response.status,
                                 headers |-> response.headers,
                                 body    |-> response.body],
              !.fulfills = @ + 1]

\* the awaited handler of slot i completes with a response
HandlerResolves(i, response) ==
  /\ requests[i].pc = "awaitHandler"
  /\ requests[i].fate = "resolves"
  /\ requests' = [requests EXCEPT ![i] = Fulfill(@, response)]
  /\ UNCHANGED <<mirageServer, page, interceptUrlPattern, urlPrefix,
                 namespace, router, verbFns, playwrightHandler,
                 passthroughChecks, pageRoutes, nextHandler, nextClosure,
                 registered, scenario, thrown>>
  /\ UNCHANGED composerVars

\* a dispatcher that answers a failed handler with a 500 response
HandlerRejectsAnswering500(i) ==
  /\ requests[i].pc = "awaitHandler"
  /\ requests[i].fate = "rejects"
  /\ requests' = [requests EXCEPT ![i] =
                    Fulfill(@, [status |-> 500, headers |-> {}, body |-> <<>>])]
  /\ UNCHANGED <<mirageServer, page, interceptUrlPattern, urlPrefix,
                 namespace, router, verbFns, playwrightHandler,
                 passthroughChecks, pageRoutes, nextHandler, nextClosure,
                 registered, scenario, thrown>>
  /\ UNCHANGED composerVars

\* the awaited handler of slot i fails: the error leaves the dispatch
HandlerRejects(i) ==
  /\ requests[i].pc = "awaitHandler"
  /\ requests[i].fate = "rejects"
  /\ requests' = [requests EXCEPT ![i] =
                    [@ EXCEPT !.pc = "error", !.error = "handler"]]
  /\ UNCHANGED <<mirageServer, page, interceptUrlPattern, urlPrefix,
                 namespace, router, verbFns, playwrightHandler,
                 passthroughChecks, pageRoutes, nextHandler, nextClosure,
                 registered, scenario, thrown>>
  /\ UNCHANGED composerVars

-----------------------------------------------------------------------------
(* The specifications                                                      *)

Next ==
  \/ \E c \in scenario.configs : create(c)
  \/ \E c \in scenario.configs : config(c)
  \/ \E call \in scenario.routes : route(call[1], call[2])
  \/ \E args \in scenario.passes : passthrough(args)
  \/ start
  \/ shutdown
  \/ \E raw \in scenario.raws : Deliver(raw)
  \/ \E i \in Slots, fate \in scenario.fates : Resume(i, fate)
  \/ \E i \in Slots, response \in scenario.responses :
       HandlerResolves(i, response)
  \/ \E i \in Slots : HandlerRejects(i)

Spec == Init /\ [][Next]_vars

\* the event loop runs every continuation that is ready: a dispatch whose
\* headers arrived goes on, and a handler that settles is awaited to its end
\* (every dispatch takes finitely many steps, so weak fairness of the steps
\* taken together gives each dispatch its steps)
Continue ==
  \E i \in Slots :
    \/ \E fate \in scenario.fates : Resume(i, fate)
    \/ \E response \in scenario.responses : HandlerResolves(i, response)
    \/ HandlerRejects(i)

Fairness == WF_vars(Continue)

\* the runs in which requests overlap, under the event loop's fairness
FairInit ==
  /\ Init
  /\ scenario = Overlapping

FairSpec == FairInit /\ [][Next]_vars /\ Fairness

(* The composer alone: a configuration and a path, composed once and again *)

ComposerInit ==
  /\ EngineInit
  /\ scenario = Lifecycle
  /\ urlPrefix \in ComposerPrefixes
  /\ namespace \in ComposerNamespaces
  /\ pathArg \in ComposerPaths
  /\ composed = None
  /\ recomposed = None

Compose ==
  /\ composed = None
  /\ composed' = _getFullPath(pathArg)
  /\ UNCHANGED <<urlPrefix, namespace, pathArg, recomposed>>
  /\ UNCHANGED engineVars

Recompose ==
  /\ composed # None
  /\ recomposed = None
  /\ recomposed' = _getFullPath(composed)
  /\ UNCHANGED <<urlPrefix, namespace, pathArg, composed>>
  /\ UNCHANGED engineVars

ComposerNext == Compose \/ Recompose

ComposerSpec == ComposerInit /\ [][ComposerNext]_vars

-----------------------------------------------------------------------------
(* Properties                                                              *)

\* the verb table a request is looked up in
VerbOf(req) == ToLowerCase(req.raw.method)

\* the paths the calls named for the verb of a request, with their kind
NamedFor(req) ==
  IF VerbOf(req) \in DOMAIN registered THEN registered[VerbOf(req)] ELSE {}

\* the pattern of a registered path accepts the path of a URL
PatternAccepts(fullPath, url) ==
  Accepts(Atoms(Segments(fullPath)), Readable(PathOnly(Pathname(url))))

\* the step in which the dispatch of slot i leaves the wait for the headers
Resumes(i) ==
  /\ requests[i].pc = "awaitHeaders"
  /\ requests'[i].pc # "awaitHeaders"

\* the state a path ends in exists and holds the passthrough handler
Forwards(recognizer, path) ==
  \E k \in 1..Len(recognizer) :
    /\ recognizer[k].segments = Segments(path)
    /\ recognizer[k].handler = playwrightPassthroughHandler

Range(f) == { f[x] : x \in DOMAIN f }

(* C1: every request ends in at most one outbound outcome: it is fulfilled *)
(* once, or forwarded once, or an error is raised; never two of these and  *)
(* never one of them twice.                                                *)
AtMostOneOutcome ==
  \A i \in Slots :
    LET r == requests[i]
    IN  r.fulfills + r.continues + (IF r.error # "none" THEN 1 ELSE 0) <= 1

AtMostOneOutcomeWitness ==
  /\ requests[1].pc = "fulfilled" /\ requests[1].fulfills = 1
  /\ requests[2].pc = "forwarded" /\ requests[2].continues = 1

(* C2: a request that matches no pattern registered for its verb (a verb   *)
(* without a table included) raises the routing-miss error, and it is      *)
(* never forwarded or fulfilled and no handler is called for it.           *)
RoutingMissRaises ==
  /\ [][\A i \in Slots :
          (/\ Resumes(i)
           /\ \A n \in NamedFor(requests[i]) :
                ~PatternAccepts(n[1], requests[i].raw.url))
          => /\ requests'[i].pc = "error"
             /\ requests'[i].error = "routing-miss"]_vars
  /\ [](\A i \in Slots :
          requests[i].error = "routing-miss" =>
            /\ requests[i].pc = "error"
            /\ requests[i].invoked = 0
            /\ requests[i].fulfills = 0
            /\ requests[i].continues = 0)

RoutingMissWitness ==
  /\ requests[1].raw.method = "TRACE"
  /\ requests[1].error = "routing-miss"
  /\ <<PathX, "mock">> \in registered["get"]

(* C3: verb isolation: the table of a verb holds only the patterns the     *)
(* registration calls named for that verb, and a request is recognized     *)
(* only by a pattern that was registered for its own verb.                 *)
VerbIsolation ==
  /\ [](\A v \in DOMAIN router : \A k \in 1..Len(router[v]) :
          \E n \in registered[v] :
            /\ Segments(n[1]) = router[v][k].segments
            /\ n[2] = router[v][k].handler.kind)
  /\ [][\A i \in Slots :
          (Resumes(i) /\ requests'[i].error # "routing-miss")
          => \E n \in NamedFor(requests[i]) :
               PatternAccepts(n[1], requests[i].raw.url)]_vars

VerbIsolationWitness ==
  /\ requests[1].raw = PostX
  /\ requests[1].error = "routing-miss"
  /\ <<PathX, "mock">> \in registered["get"]
  /\ registered["post"] = {}

(* C4: passthrough precedence: a request for a verb and path that          *)
(* passthrough() registered is forwarded and no mock handler is called,    *)
(* whether a mock route for the same path and verb was registered before   *)
(* or after the passthrough() call.                                        *)
PassthroughPrecedence ==
  [][\A i \in Slots :
       (/\ Resumes(i)
        /\ <<Pathname(requests[i].raw.url), "passthrough">>
             \in NamedFor(requests[i]))
       => /\ requests'[i].pc = "forwarded"
          /\ requests'[i].invoked = 0]_vars

(* C5: parameter extraction: with /movies/:id registered, the handler of a *)
(* request to /movies/42?sort=asc is called with params = {id: "42"} and   *)
(* queryParams = {sort: "asc"}.                                            *)
ParameterExtraction ==
  \A i \in Slots :
    (/\ requests[i].invoked = 1
     /\ requests[i].raw = GetMovie
     /\ requests[i].handler.path = PathMovie)
    => /\ requests[i].mirageRequest.params =
            { << <<"i","d">>, <<"4","2">> >> }
       /\ requests[i].mirageRequest.queryParams =
            { << <<"s","o","r","t">>, <<"a","s","c">> >> }

(* C6: teardown is final: when shutdown() returns, the listener registry   *)
(* of the page holds no callback this instance installed.                  *)
TeardownIsFinal == [][shutdown => pageRoutes' = <<>>]_vars

(* C7: passthrough() without arguments, called after create(), registers   *)
(* exactly the composed "/**" and "/" against the passthrough handler in   *)
(* all seven verb tables, and leaves every pattern registered before as it *)
(* was, but for a pattern that is the same as one of the two, whose        *)
(* handler it replaces.                                                    *)
DefaultPassthroughPatterns ==
  { Segments(_getFullPath(PathAll)), Segments(_getFullPath(PathRoot)) }

PassthroughDefaults ==
  [][(passthrough(<<>>) /\ VerbSet \subseteq DOMAIN router)
     => \A v \in VerbSet :
          /\ Forwards(router'[v], _getFullPath(PathAll))
          /\ Forwards(router'[v], _getFullPath(PathRoot))
          /\ \A e \in Range(router[v]) :
               e.segments \notin DefaultPassthroughPatterns
               => e \in Range(router'[v])
          /\ \A e \in Range(router'[v]) :
               \/ e.segments \in DefaultPassthroughPatterns
               \/ e \in Range(router[v])]_vars

PassthroughDefaultsWitness ==
  /\ VerbSet \subseteq DOMAIN router
  /\ Len(router["get"]) = 3
  /\ router["get"][1].handler.kind = "mock"
  /\ router["get"][2].segments = Segments(PathAll)
  /\ router["get"][2].handler = playwrightPassthroughHandler
  /\ router["get"][3].segments = Segments(PathRoot)
  /\ router["get"][3].handler = playwrightPassthroughHandler
  /\ Len(router["post"]) = 2

(* C7 as stated: no pattern with a mock handler that was registered before *)
(* the call is removed or has its handler changed.                         *)
PassthroughDefaultsKeepAllMocks ==
  [][passthrough(<<>>)
     => \A v \in VerbSet \cap DOMAIN router :
          /\ Forwards(router'[v], _getFullPath(PathAll))
          /\ Forwards(router'[v], _getFullPath(PathRoot))
          /\ \A e \in Range(router[v]) :
               e.handler.kind = "mock" => e \in Range(router'[v])]_vars

(* C8: composing a composed path again gives the same path when the        *)
(* composed path is an absolute http(s) URL or when urlPrefix and          *)
(* namespace are both empty.                                               *)
IdempotentWhenAbsoluteOrBare ==
  (/\ recomposed # None
   /\ \/ IsFQDN(composed)
      \/ ~Truthy(urlPrefix) /\ ~Truthy(namespace))
  => recomposed = composed

IdempotentWitness ==
  /\ urlPrefix = HostPrefix
  /\ namespace = ApiBoth
  /\ pathArg = PathA
  /\ recomposed = HostPrefix \o ApiBoth \o PathA

(* C8 as stated: for every configuration and path, composing the composed  *)
(* path again gives the same path.                                         *)
Idempotent == recomposed # None => recomposed = composed

(* C9: the composer maps ("", "", "a") to "/a", ("http://h:1", "/api/",    *)
(* "a") to "http://h:1/api/a", ("", "/api", "a") and ("", "api/", "a") to  *)
(* "/api/a", and the same with the path given as "/a".                     *)
ComposerTable ==
  { <<<<>>, <<>>, PathSlashA>>,
    <<HostPrefix, ApiBoth, HostPrefix \o ApiBoth \o PathA>>,
    <<<<>>, ApiLead, ApiLead \o PathSlashA>>,
    <<<<>>, ApiTrail, ApiLead \o PathSlashA>> }

ComposerCorrect ==
  composed # None =>
    \A row \in ComposerTable :
      (/\ Or(urlPrefix, <<>>) = row[1]
       /\ Or(namespace, <<>>) = row[2]
       /\ pathArg \in { PathA, PathSlashA })
      => composed = row[3]

ComposerCorrectWitness ==
  /\ urlPrefix = HostPrefix
  /\ namespace = ApiBoth
  /\ pathArg = PathSlashA
  /\ composed = HostPrefix \o ApiBoth \o PathA

(* C10: a request whose handler never completes stays unfulfilled forever, *)
(* and no request waits on it: a step of one dispatch leaves every other   *)
(* request as it is, a dispatch that resumes forwards the request when the *)
(* match is the passthrough handler, a handler that completes has its      *)
(* request fulfilled (one that fails, its error raised), and from some     *)
(* point on no dispatch is left waiting for its headers or for a handler   *)
(* that completes.                                                         *)
Hung(i) ==
  /\ requests[i].pc = "awaitHandler"
  /\ requests[i].fate = "never"
  /\ requests[i].fulfills = 0
  /\ requests[i].continues = 0

\* the dispatch of slot i has a step to take
Pending(i) ==
  \/ requests[i].pc = "awaitHeaders"
  \/ /\ requests[i].pc = "awaitHandler"
     /\ requests[i].fate \in {"resolves", "rejects"}

Independence ==
  /\ [][\A i \in Slots :
          /\ Hung(i) => Hung(i)'
          /\ requests'[i] # requests[i] =>
               \A j \in Slots \ {i} : requests'[j] = requests[j]
          /\ (Resumes(i) /\ Forwards(router[VerbOf(requests[i])],
                                     requests[i].url.pathname))
               => /\ requests'[i].pc = "forwarded"
                  /\ requests'[i].continues = 1
          /\ (/\ requests[i].pc = "awaitHandler"
              /\ requests[i].fate = "resolves"
              /\ requests'[i] # requests[i])
               => /\ requests'[i].pc = "fulfilled"
                  /\ requests'[i].fulfills = 1
          /\ (/\ requests[i].pc = "awaitHandler"
              /\ requests[i].fate = "rejects"
              /\ requests'[i] # requests[i])
               => /\ requests'[i].pc = "error"
                  /\ requests'[i].fulfills = 0]_vars
  /\ <>[](\A i \in Slots : ~Pending(i))

IndependenceWitness ==
  /\ Hung(1)
  /\ requests[2].pc = "fulfilled"
  /\ requests[2].fulfills = 1

(* C11: a create() whose config has no page throws the setup error in the  *)
(* call itself, and that call installs no callback on the page and makes   *)
(* no verb table and no registration function (what an earlier create()    *)
(* made stays as it was).                                                  *)
SetupErrorWithoutPage ==
  [][\A c \in scenario.configs :
       (create(c) /\ c.page = Undefined)
       => /\ thrown' = "setup"
          /\ pageRoutes' = pageRoutes
          /\ playwrightHandler' = playwrightHandler
          /\ router' = router
          /\ verbFns' = verbFns]_vars

SetupErrorWitness ==
  /\ thrown = "setup"
  /\ page = Undefined
  /\ pageRoutes = <<>>
  /\ DOMAIN router = {}
  /\ verbFns = {}

(* C12: prefix-consistent recognition: under every configuration, a        *)
(* request of verb V whose full URL equals the composed path of a route    *)
(* registered under V is matched: its dispatch is not a routing miss.      *)
PrefixConsistentRecognition ==
  [][\A i \in Slots :
       (/\ Resumes(i)
        /\ \E n \in NamedFor(requests[i]) : n[1] = requests[i].raw.url)
       => requests'[i].error # "routing-miss"]_vars

(* C13: a request whose first recognized candidate is a mock handler has   *)
(* that handler called exactly once; nothing is fulfilled while the        *)
(* handler is awaited; and when the handler completes with (status,        *)
(* headers, body) the request is fulfilled exactly once, with those three  *)
(* values as the handler gave them.                                        *)
HandlerThenFulfill ==
  /\ [][\A i \in Slots :
          Resumes(i) =>
            \E matches \in { Matches(router, requests[i]) } :
              (/\ Len(matches) > 0
               /\ matches[1].handler # playwrightPassthroughHandler)
              => /\ requests'[i].pc = "awaitHandler"
                 /\ requests'[i].handler = matches[1].handler
                 /\ requests'[i].invoked = 1
                 /\ requests'[i].fulfills = 0]_vars
  /\ [][\A i \in Slots : \A response \in scenario.responses :
          HandlerResolves(i, response)
          => /\ requests'[i].fulfills = 1
             /\ requests'[i].invoked = 1
             /\ requests'[i].raw = requests[i].raw
             /\ requests'[i].fulfilledWith = response]_vars
  /\ [](\A i \in Slots :
          /\ requests[i].invoked <= 1
          /\ requests[i].fulfills <= 1
          /\ requests[i].pc = "awaitHandler" => requests[i].fulfills = 0
          /\ requests[i].fulfills = 1
               => /\ requests[i].invoked = 1
                  /\ requests[i].fulfilledWith = requests[i].result)

HandlerThenFulfillWitness ==
  /\ requests[1].raw = GetMovie
  /\ requests[1].handler.kind = "mock"
  /\ requests[1].invoked = 1
  /\ requests[1].fulfills = 1
  /\ requests[1].fulfilledWith = NotFound

(* C14: when the matched handler fails, the error leaves the dispatch of   *)
(* that request: the request is never fulfilled and never forwarded, the   *)
(* handler is not called a second time, and no response is made up for it. *)
HandlerErrorPropagates ==
  /\ [][\A i \in Slots :
          HandlerRejects(i)
          => /\ requests'[i].pc = "error"
             /\ requests'[i].error = "handler"]_vars
  /\ [][\A i \in Slots :
          requests[i].error = "handler" => requests'[i] = requests[i]]_vars
  /\ [](\A i \in Slots :
          requests[i].error = "handler"
          => /\ requests[i].pc = "error"
             /\ requests[i].invoked = 1
             /\ requests[i].fulfills = 0
             /\ requests[i].continues = 0
             /\ requests[i].result = NoRequest.result
             /\ requests[i].fulfilledWith = NoRequest.fulfilledWith)

HandlerErrorWitness ==
  /\ requests[1].error = "handler"
  /\ requests[1].handler.kind = "mock"
  /\ requests[1].invoked = 1
  /\ requests[1].fulfills = 0
  /\ requests[1].continues = 0

(* C15: shutdown() changes the listener registration alone: the route      *)
(* tables, the predicate list and every request stay as they were. A       *)
(* dispatch in flight goes on once nothing listens any more: it can take   *)
(* its next step, a handler that completes then has its result fulfilled,  *)
(* and a passthrough match is forwarded.                                   *)
ShutdownSparesInFlight ==
  /\ [][shutdown
        => /\ requests' = requests
           /\ router' = router
           /\ passthroughChecks' = passthroughChecks
           /\ registered' = registered
           /\ verbFns' = verbFns
           /\ playwrightHandler' = playwrightHandler]_vars
  /\ [](\A i \in Slots :
          (pageRoutes = <<>> /\ requests[i].pc = "awaitHeaders")
          => \E fate \in scenario.fates : ENABLED Resume(i, fate))
  /\ [](\A i \in Slots :
          (/\ pageRoutes = <<>>
           /\ requests[i].pc = "awaitHandler"
           /\ requests[i].fate = "resolves")
          => \A response \in scenario.responses :
               ENABLED HandlerResolves(i, response))
  /\ [][\A i \in Slots : \A response \in scenario.responses :
          (pageRoutes = <<>> /\ HandlerResolves(i, response))
          => /\ requests'[i].pc = "fulfilled"
             /\ requests'[i].fulfilledWith = response]_vars
  /\ [][\A i \in Slots :
          (pageRoutes = <<>> /\ Resumes(i))
          => \E matches \in { Matches(router, requests[i]) } :
               /\ Len(matches) > 0
                    => requests'[i].pc \in {"forwarded", "awaitHandler"}
               /\ (/\ Len(matches) > 0
                   /\ matches[1].handler = playwrightPassthroughHandler)
                  => /\ requests'[i].pc = "forwarded"
                     /\ requests'[i].continues = 1]_vars

ShutdownSparesInFlightWitness ==
  /\ page # Undefined
  /\ playwrightHandler # Undefined
  /\ pageRoutes = <<>>
  /\ requests[1].pc = "awaitHandler"
  /\ requests[1].fate = "resolves"
  /\ requests[1].closure = playwrightHandler

(* C16: passthrough(p1, ..., pn, verbs) with an array as last argument     *)
(* stores the passthrough handler under the composed path of every string  *)
(* argument in the table of every verb of the array, and leaves the table  *)
(* of every other verb as it was; without an array it does so in the       *)
(* tables of all seven default verbs. Patterns other than the composed     *)
(* paths stay as they were.                                                *)
PassthroughVerbList ==
  [][\A args \in scenario.passes :
       (passthrough(args) /\ Len(args) > 0)
       => LET verbs == IF Last(args).t = "array" THEN Range(Last(args).v)
                       ELSE {"get", "post", "put", "delete", "patch",
                             "options", "head"}
              paths == { _getFullPath(a.v) :
                           a \in { b \in Range(args) : b.t = "string" } }
              patterns == { Segments(p) : p \in paths }
          IN  \A v \in DOMAIN router :
                IF v \in verbs
                THEN /\ \A p \in paths : Forwards(router'[v], p)
                     /\ \A e \in Range(router[v]) :
                          e.segments \notin patterns
                          => e \in Range(router'[v])
                     /\ \A e \in Range(router'[v]) :
                          \/ e.segments \in patterns
                          \/ e \in Range(router[v])
                ELSE router'[v] = router[v]]_vars

PassthroughVerbListWitness ==
  /\ VerbSet \subseteq DOMAIN router
  /\ Forwards(router["get"], PathX)
  /\ Forwards(router["get"], PathSlashA)
  /\ Forwards(router["put"], PathX)
  /\ Forwards(router["put"], PathSlashA)
  /\ \A v \in VerbSet \ {"get", "put"} : router[v] = <<>>

(* C17: the predicate functions passed to passthrough() are appended to    *)
(* passthroughChecks in the order they were passed: after passthrough(f),  *)
(* f is the last element of the list.                                      *)
PredicatesAreListed ==
  [][\A args \in scenario.passes :
       passthrough(args)
       => passthroughChecks' =
            passthroughChecks
            \o [k \in 1..Len(SelectSeq(args, LAMBDA a : a.t = "function"))
                  |-> SelectSeq(args, LAMBDA a : a.t = "function")[k].v]]_vars

\* a field or an argument holds a string that is not empty
Given(value) == value # Undefined /\ value # <<>>

(* C18: the composer's configuration is set at most once: a call of        *)
(* config() (create() makes one) leaves a urlPrefix, and likewise a        *)
(* namespace, that is not empty as it is, whatever the argument holds; a   *)
(* field that is empty takes the value of the argument, or "" when the     *)
(* argument gives none. No other call changes the two fields.              *)
ConfigSetsOnce ==
  /\ [][\A c \in scenario.configs :
          (config(c) \/ (create(c) /\ c.page # Undefined))
          => /\ urlPrefix' = IF Given(urlPrefix) THEN urlPrefix
                             ELSE IF Given(c.urlPrefix) THEN c.urlPrefix
                             ELSE <<>>
             /\ namespace' = IF Given(namespace) THEN namespace
                             ELSE IF Given(c.namespace) THEN c.namespace
                             ELSE <<>>]_vars
  /\ [][/\ Given(urlPrefix) => urlPrefix' = urlPrefix
        /\ Given(namespace) => namespace' = namespace]_vars

ConfigSetsOnceWitness ==
  /\ urlPrefix = HostPrefix
  /\ namespace = ApiBoth
  /\ interceptUrlPattern = DefaultInterceptUrlPattern
  /\ nextClosure = 2

(* C19: at most one interception callback per engine: in every reachable   *)
(* state the page holds at most one callback that the engine installed,    *)
(* and that callback is the one the engine records as playwrightHandler.   *)
SingleInterceptionHandle ==
  /\ Len(pageRoutes) <= 1
  /\ \A k \in 1..Len(pageRoutes) : pageRoutes[k].handler = playwrightHandler

EndsWith(s, suf) ==
  Len(s) >= Len(suf) /\ SubSeq(s, Len(s) - Len(suf) + 1, Len(s)) = suf

\* s without the slashes it starts with, and without those it ends with
RECURSIVE StripLeadingSlashes(_)
StripLeadingSlashes(s) ==
  IF Len(s) > 0 /\ s[1] = "/" THEN StripLeadingSlashes(Tail(s)) ELSE s
RECURSIVE StripTrailingSlashes(_)
StripTrailingSlashes(s) ==
  IF Len(s) > 0 /\ Last(s) = "/" THEN StripTrailingSlashes(DropLast(s)) ELSE s

\* s holds two slashes in a row
HasSlashRun(s) == \E k \in 1..(Len(s) - 1) : s[k] = "/" /\ s[k + 1] = "/"

StartsWithSlashRun(s) == StartsWith(s, <<"/", "/">>)
EndsWithSlashRun(s) == EndsWith(s, <<"/", "/">>)

\* the composer was given a path that it does not take for an absolute URL
ComposedRelative ==
  /\ composed # None
  /\ ~IsFQDN(IF Len(pathArg) > 0 /\ pathArg[1] = "/" THEN Tail(pathArg)
             ELSE pathArg)

\* the text of the urlPrefix as the result starts with it, and the text of
\* the path as the result ends with it
PrefixText ==
  LET base == StripTrailingSlashes(Trim(urlPrefix))
  IN  IF IsFQDN(composed) THEN base ELSE DedupSlashes(<<"/">> \o base)
PathText ==
  IF IsFQDN(composed) THEN StripLeadingSlashes(pathArg)
  ELSE DedupSlashes(StripLeadingSlashes(pathArg))

\* one slash, not more, after the urlPrefix and before the appended path
OneSlashAtJunctions ==
  /\ StartsWith(composed, PrefixText \o <<"/">>)
  /\ ~StartsWith(composed, PrefixText \o <<"/", "/">>)
  /\ EndsWith(composed, <<"/">> \o PathText)
  /\ ~EndsWith(composed, <<"/", "/">> \o PathText)

\* a result without scheme starts with one slash and holds no run of them
NoSchemeNormalized ==
  ~IsFQDN(composed) => composed[1] = "/" /\ ~HasSlashRun(composed)

(* C20: slash normalization of composed paths: for every non-empty         *)
(* urlPrefix that does not end in a run of slashes, every namespace that   *)
(* neither starts nor ends with a run of slashes and every relative path   *)
(* that does not start with a run of slashes, the composed path has        *)
(* exactly one "/" between the urlPrefix and what follows it and exactly   *)
(* one "/" before the appended path; and every composed path without a     *)
(* scheme starts with a single "/" and holds no run of two or more "/".    *)
SlashNormalizationOfPlainInputs ==
  ComposedRelative =>
    /\ (/\ Truthy(urlPrefix)
        /\ ~EndsWithSlashRun(Trim(urlPrefix))
        /\ ~StartsWithSlashRun(Or(namespace, <<>>))
        /\ ~EndsWithSlashRun(Or(namespace, <<>>))
        /\ ~StartsWithSlashRun(pathArg))
       => OneSlashAtJunctions
    /\ NoSchemeNormalized

SlashNormalizationWitness ==
  /\ urlPrefix = <<"/", "p">>
  /\ namespace = ApiTrail
  /\ pathArg = <<"a", "/">>
  /\ composed = <<"/", "p">> \o ApiLead \o <<"/", "a", "/">>

(* C20 as stated: the same for every non-empty urlPrefix, every namespace  *)
(* and every relative path.                                                *)
SlashNormalization ==
  ComposedRelative =>
    /\ Truthy(urlPrefix) => OneSlashAtJunctions
    /\ NoSchemeNormalized

====
